---- MODULE Spec2Model ----
(***************************************************************************)
(* Model of the ANVI travel assistant backend: the /ask handler (main.py), *)
(* the intent extractor (intent_service.py), the entity resolver and the   *)
(* category canonicalizer (data_service.py), the catalog filter            *)
(* (rag_service.py) and the responder wrapper (llm_service.py).            *)
(*                                                                         *)
(* Python strings are TLA+ strings; substring tests, lower(), strip() and  *)
(* split() are computed character by character, as Python computes them.   *)
(***************************************************************************)
EXTENDS Integers, Sequences, FiniteSets, TLC

VARIABLES
    memory,     \* the memory store's log of the one user: <<[role, content], ...>>
    catalog,    \* the records the catalog provider currently serves
    last,       \* what the last /ask request did (see Respond)
    nreq,       \* number of /ask requests handled so far
    fin,        \* input of the pure function under study (function specifications)
    fout        \* its output, NoOut before the function is applied

vars == <<memory, catalog, last, nreq, fin, fout>>

\* Python's None
None == "<None>"

NoOut == [done |-> FALSE]

(***************************************************************************)
(* Bounds of the model                                                     *)
(***************************************************************************)
MaxNamePieces == 3     \* pieces concatenated into a name given to normalize_name
MaxItems == 2          \* catalog records given to resolve_entity
MaxCatPieces == 2      \* pieces concatenated into a raw category string
MaxCatalog == 3        \* catalog records given to the catalog filter
MaxRequests == 2       \* /ask requests in one behaviour

(***************************************************************************)
(* Python string primitives                                                *)
(***************************************************************************)
Ch(s, i) == SubSeq(s, i, i)

UpperAlpha == "ABCDEFGHIJKLMNOPQRSTUVWXYZ"
LowerAlpha == "abcdefghijklmnopqrstuvwxyz"
Digits == "0123456789"

\* str.isspace for one character
IsSpace(c) == c \in {" ", "\t", "\n", "\r"}

IsLetter(c) ==
    \E i \in 1..26 : Ch(UpperAlpha, i) = c \/ Ch(LowerAlpha, i) = c

\* a character of the regular expression class \w
IsWordCh(c) ==
    IsLetter(c) \/ c = "_" \/ \E i \in 1..10 : Ch(Digits, i) = c

LowerCh(c) ==
    IF \E i \in 1..26 : Ch(UpperAlpha, i) = c
    THEN Ch(LowerAlpha, CHOOSE i \in 1..26 : Ch(UpperAlpha, i) = c)
    ELSE c

RECURSIVE Lower(_)
\* str.lower(), character by character
Lower(s) ==
    IF s = "" THEN ""
    ELSE IF Len(s) = 1 THEN LowerCh(s)
    ELSE Lower(SubSeq(s, 1, Len(s) \div 2)) \o Lower(SubSeq(s, Len(s) \div 2 + 1, Len(s)))

RECURSIVE LStrip(_)
LStrip(s) ==
    IF s = "" THEN ""
    ELSE IF IsSpace(Ch(s, 1)) THEN LStrip(SubSeq(s, 2, Len(s)))
    ELSE s

RECURSIVE RStrip(_)
RStrip(s) ==
    IF s = "" THEN ""
    ELSE IF IsSpace(Ch(s, Len(s))) THEN RStrip(SubSeq(s, 1, Len(s) - 1))
    ELSE s

\* str.strip()
Strip(s) == RStrip(LStrip(s))

\* Python's `t in s` for strings
Contains(s, t) ==
    \/ t = ""
    \/ \E i \in 1..(Len(s) - Len(t) + 1) : SubSeq(s, i, i + Len(t) - 1) = t

RECURSIVE SplitFrom(_, _, _, _)
SplitFrom(s, i, cur, acc) ==
    IF i > Len(s)
    THEN IF cur = "" THEN acc ELSE Append(acc, cur)
    ELSE IF IsSpace(Ch(s, i))
         THEN SplitFrom(s, i + 1, "", IF cur = "" THEN acc ELSE Append(acc, cur))
         ELSE SplitFrom(s, i + 1, cur \o Ch(s, i), acc)

\* str.split() with no argument: the maximal runs of non-whitespace
Split(s) == SplitFrom(s, 1, "", <<>>)

RECURSIVE Join(_, _)
\* sep.join(parts)
Join(parts, sep) ==
    IF parts = <<>> THEN ""
    ELSE IF Len(parts) = 1 THEN parts[1]
    ELSE parts[1] \o sep \o Join(Tail(parts), sep)

\* [x for x in xs if P(x)]
Filter(xs, P(_)) == SelectSeq(xs, P)

\* xs[:n]
Take(xs, n) == SubSeq(xs, 1, IF Len(xs) < n THEN Len(xs) ELSE n)

\* every sequence over S of length at most n
SeqsUpTo(S, n) == UNION {[1..k -> S] : k \in 0..n}

RECURSIVE Concat(_)
Concat(parts) ==
    IF parts = <<>> THEN "" ELSE parts[1] \o Concat(Tail(parts))

(***************************************************************************)
(* data_service.normalize_name                                             *)
(***************************************************************************)
NameStopTokens == {"hotel", "the"}

KeepNameToken(t) == t \notin NameStopTokens

\* the stop words dropped before the name is lower-cased
normalize_name_filter_first(name) ==
    IF name = None \/ name = "" THEN ""
    ELSE Strip(Lower(Join(Filter(Split(Strip(name)), KeepNameToken), " ")))

normalize_name(name) ==
    IF name = None \/ name = "" THEN ""
    ELSE Strip(Join(Filter(Split(Strip(Lower(name))), KeepNameToken), " "))

\* dict.get(key): None when the key is absent
Get(d, key) == IF key \in DOMAIN d THEN d[key] ELSE None

\* truth value of a Python string-or-None
Truthy(v) == v # None /\ v # ""

\* Python's `a or b` on strings-or-None
Or(a, b) == IF Truthy(a) THEN a ELSE b

(***************************************************************************)
(* data_service.resolve_entity: the guarded two-pass match over the items  *)
(* of one fetch.  A match is [pass, index, field]: the pass whose return   *)
(* statement ran, the position of the item, the field that matched.        *)
(***************************************************************************)
GENERIC_NAMES == {"hotel", "hotels", "resort", "villa"}

NoMatch == [pass |-> 0, index |-> 0, field |-> ""]

\* lines 197-200 and 203-206: one field of one item against the query, pass 1
ExactField(entity_normalized, raw) ==
    /\ Truthy(raw)
    /\ normalize_name(raw) # ""
    /\ entity_normalized = normalize_name(raw)

\* pass 2 without the guard against generic names
FuzzyField_unguarded(entity_normalized, raw) ==
    /\ Truthy(raw)
    /\ normalize_name(raw) # ""
    /\ \/ Contains(normalize_name(raw), entity_normalized)
       \/ Contains(entity_normalized, normalize_name(raw))

\* lines 211-218 and 221-228: one field of one item against the query, pass 2
FuzzyField(entity_normalized, raw) ==
    /\ Truthy(raw)
    /\ normalize_name(raw) # ""
    /\ normalize_name(raw) \notin GENERIC_NAMES
    /\ \/ Contains(normalize_name(raw), entity_normalized)
       \/ Contains(entity_normalized, normalize_name(raw))

\* the first item, and in it the first field (vendor_name before name), that
\* Hit accepts
FirstHit(items, en, Hit(_, _), pass) ==
    LET hits == {i \in 1..Len(items) :
                    \/ Hit(en, Get(items[i], "vendor_name"))
                    \/ Hit(en, Get(items[i], "name"))}
    IN IF hits = {} THEN NoMatch
       ELSE LET i == CHOOSE j \in hits : \A k \in hits : j <= k
            IN [pass |-> pass, index |-> i,
                field |-> IF Hit(en, Get(items[i], "vendor_name"))
                          THEN "vendor_name" ELSE "name"]

\* one loop that tries the exact and the containment test item by item
resolve_match_single_loop(entity_name, items) ==
    LET entity_normalized == normalize_name(entity_name)
        Either(en, raw) == ExactField(en, raw) \/ FuzzyField(en, raw)
        hit == FirstHit(items, entity_normalized, Either, 2)
    IN IF items = <<>> \/ entity_normalized = "" \/ hit.pass = 0 THEN NoMatch
       ELSE IF ExactField(entity_normalized, Get(items[hit.index], hit.field))
            THEN [hit EXCEPT !.pass = 1]
            ELSE hit

resolve_match(entity_name, items) ==
    LET entity_normalized == normalize_name(entity_name)
        pass1 == FirstHit(items, entity_normalized, ExactField, 1)
        pass2 == FirstHit(items, entity_normalized, FuzzyField, 2)
    IN IF items = <<>> THEN NoMatch
       ELSE IF entity_normalized = "" THEN NoMatch
       ELSE IF pass1.pass # 0 THEN pass1
       ELSE pass2

(***************************************************************************)
(* Function specification of the name functions: Init draws the input,     *)
(* one action applies the function.                                        *)
(***************************************************************************)
NamePieces == {" ", "Hotel", "the", "s", "villa", "a"}

NameStrings == {Concat(ps) : ps \in SeqsUpTo(NamePieces, MaxNamePieces)}

QueryNames == {"Hotel", "resort", "resorts", "paradise", "The Villa", "sula"}

VendorNames == {"", "Hotel", "Resort", "Resorts Paradise", "Paradise"}

SecondNames == {"", "Resort Paradise", "Villa"}

NameItems == {[vendor_name |-> v, name |-> n] : v \in VendorNames, n \in SecondNames}

NameInputs ==
    {[fn |-> "normalize_name", name |-> s, items |-> <<>>] : s \in NameStrings}
    \cup {[fn |-> "resolve_entity", name |-> q, items |-> c] :
            q \in QueryNames, c \in SeqsUpTo(NameItems, MaxItems)}

Idle ==
    /\ memory = <<>>
    /\ catalog = <<>>
    /\ last = [status |-> 0]
    /\ nreq = 0

InitName == Idle /\ fin \in NameInputs /\ fout = NoOut

ApplyNormalizeName ==
    /\ fin.fn = "normalize_name"
    /\ ~fout.done
    /\ fout' = [done |-> TRUE, value |-> normalize_name(fin.name)]
    /\ UNCHANGED <<memory, catalog, last, nreq, fin>>

ApplyResolveEntity ==
    /\ fin.fn = "resolve_entity"
    /\ ~fout.done
    /\ fout' = [done |-> TRUE, match |-> resolve_match(fin.name, fin.items)]
    /\ UNCHANGED <<memory, catalog, last, nreq, fin>>

NextName == ApplyNormalizeName \/ ApplyResolveEntity

SpecName == InitName /\ [][NextName]_vars

Resolved == fout.done /\ fin.fn = "resolve_entity"

\* the raw name through which the resolver matched
MatchedRaw == Get(fin.items[fout.match.index], fout.match.field)

\* the raw, non-empty names of item i
RawNames(i) ==
    {r \in {Get(fin.items[i], "vendor_name"), Get(fin.items[i], "name")} : Truthy(r)}

\* C5: name normalization is idempotent: normalizing a normalized name
\* changes nothing.
C5_NormalizeIdempotent ==
    (fout.done /\ fin.fn = "normalize_name")
        => normalize_name(fout.value) = fout.value

\* a name with a stop word in capitals and a second token was normalized
C5_Witness ==
    /\ fout.done /\ fin.fn = "normalize_name"
    /\ fin.name = "Hotel villa"
    /\ fout.value = "villa"

\* C3: a match returned by pass 2 never went through a name whose normalized
\* form is hotel, hotels, resort or villa; a match through such a name is a
\* pass-1 match, the normalized name being the normalized query.
C3_NoGenericFuzzyMatch ==
    (Resolved /\ fout.match.pass # 0) =>
        /\ fout.match.pass = 2 => normalize_name(MatchedRaw) \notin GENERIC_NAMES
        /\ normalize_name(MatchedRaw) \in GENERIC_NAMES =>
              /\ fout.match.pass = 1
              /\ normalize_name(MatchedRaw) = normalize_name(fin.name)

\* pass 2 returned the second item although the first, generic, item's name
\* is contained in the query
C3_Witness ==
    /\ Resolved
    /\ fin.name = "resorts"
    /\ Len(fin.items) = 2
    /\ fin.items[1].vendor_name = "Resort"
    /\ fout.match = [pass |-> 2, index |-> 2, field |-> "vendor_name"]

\* item i has a name whose normalized form is the normalized query
EqualName(i) ==
    \E r \in RawNames(i) : normalize_name(r) = normalize_name(fin.name)

\* item i has a non-empty, non-generic normalized name that contains, or is
\* contained in, the normalized query
ContainedName(i) ==
    \E r \in RawNames(i) :
        /\ normalize_name(r) # ""
        /\ normalize_name(r) \notin GENERIC_NAMES
        /\ \/ Contains(normalize_name(r), normalize_name(fin.name))
           \/ Contains(normalize_name(fin.name), normalize_name(r))

\* C4 as stated: whenever some item has a normalized name equal to the
\* normalized query, the result is the first such item.
C4_Original ==
    (Resolved /\ \E i \in 1..Len(fin.items) : EqualName(i)) =>
        /\ fout.match.pass = 1
        /\ EqualName(fout.match.index)
        /\ \A j \in 1..(fout.match.index - 1) : ~EqualName(j)

\* C4 amended: for a query whose normalized name is not empty, an exact match
\* anywhere in the catalog wins over every containment match (the result is
\* the first exact item); with no exact and no containment match the result
\* is null.
C4_ExactBeforeFuzzy ==
    Resolved =>
        /\ (normalize_name(fin.name) # ""
            /\ \E i \in 1..Len(fin.items) : EqualName(i)) =>
                /\ fout.match.pass = 1
                /\ EqualName(fout.match.index)
                /\ \A j \in 1..(fout.match.index - 1) : ~EqualName(j)
        /\ (\A i \in 1..Len(fin.items) : ~EqualName(i) /\ ~ContainedName(i)) =>
                fout.match = NoMatch
        /\ fout.match.pass = 2 => \A i \in 1..Len(fin.items) : ~EqualName(i)

\* the exact item is second and the first item would satisfy containment
C4_Witness ==
    /\ Resolved
    /\ fin.name = "paradise"
    /\ Len(fin.items) = 2
    /\ fin.items[1].vendor_name = "Resorts Paradise"
    /\ fin.items[2].vendor_name = "Paradise"
    /\ fout.match = [pass |-> 1, index |-> 2, field |-> "vendor_name"]

(***************************************************************************)
(* data_service.canonical_category                                         *)
(***************************************************************************)
\* the restaurant rule tried before the hotel rule
category_rules_restaurant_first(c) ==
    IF Contains(c, "restaurant") \/ Contains(c, "cafe") THEN "restaurant"
    ELSE IF Contains(c, "hotel") THEN "hotel"
    ELSE IF Contains(c, "resort") THEN "resort"
    ELSE IF Contains(c, "villa") THEN "villa"
    ELSE IF Contains(c, "medical") \/ Contains(c, "hospital") THEN "hospital"
    ELSE IF Contains(c, "office") THEN "office"
    ELSE IF \/ Contains(c, "theater") \/ Contains(c, "theatre")
            \/ Contains(c, "theaters") \/ Contains(c, "theatres") THEN "theater"
    ELSE IF Contains(c, "museum") THEN "museum"
    ELSE IF \/ Contains(c, "religious") \/ Contains(c, "temple")
            \/ Contains(c, "mandir") \/ Contains(c, "ashram") THEN "religious"
    ELSE IF Contains(c, "trek") THEN "treks"
    ELSE IF Contains(c, "adventure") \/ Contains(c, "one-day") THEN "adventure"
    ELSE IF Contains(c, "wildlife") \/ Contains(c, "nature") THEN "wildlife"
    ELSE IF Contains(c, "picnic") THEN "picnic"
    ELSE IF Contains(c, "wine") THEN "wine"
    ELSE IF Contains(c, "shopping") THEN "shopping"
    ELSE c

\* the priority rules over c, the lowered and stripped category
\* (data_service.py lines 334-366)
category_rules(c) ==
    IF Contains(c, "hotel") THEN "hotel"
    ELSE IF Contains(c, "resort") THEN "resort"
    ELSE IF Contains(c, "villa") THEN "villa"
    ELSE IF Contains(c, "restaurant") \/ Contains(c, "cafe") THEN "restaurant"
    ELSE IF Contains(c, "medical") \/ Contains(c, "hospital") THEN "hospital"
    ELSE IF Contains(c, "office") THEN "office"
    ELSE IF \/ Contains(c, "theater") \/ Contains(c, "theatre")
            \/ Contains(c, "theaters") \/ Contains(c, "theatres") THEN "theater"
    ELSE IF Contains(c, "museum") THEN "museum"
    ELSE IF \/ Contains(c, "religious") \/ Contains(c, "temple")
            \/ Contains(c, "mandir") \/ Contains(c, "ashram") THEN "religious"
    ELSE IF Contains(c, "trek") THEN "treks"
    ELSE IF Contains(c, "adventure") \/ Contains(c, "one-day") THEN "adventure"
    ELSE IF Contains(c, "wildlife") \/ Contains(c, "nature") THEN "wildlife"
    ELSE IF Contains(c, "picnic") THEN "picnic"
    ELSE IF Contains(c, "wine") THEN "wine"
    ELSE IF Contains(c, "shopping") THEN "shopping"
    ELSE c

canonical_category(raw_category) ==
    IF ~Truthy(raw_category) THEN "" ELSE category_rules(Strip(Lower(raw_category)))

\* rag_service.normalize_category, the canonicalizer next to the filter
normalize_category(raw_category) ==
    LET c == Strip(Lower(raw_category)) IN
    IF ~Truthy(raw_category) THEN ""
    ELSE IF Contains(c, "hotel") THEN "hotel"
    ELSE IF Contains(c, "resort") THEN "resort"
    ELSE IF Contains(c, "villa") THEN "villa"
    ELSE IF Contains(c, "restaurant") \/ Contains(c, "cafe") THEN "restaurant"
    ELSE IF Contains(c, "medical") \/ Contains(c, "hospital") THEN "hospital"
    ELSE IF Contains(c, "office") THEN "office"
    ELSE IF Contains(c, "theater") THEN "theater"
    ELSE IF Contains(c, "museum") THEN "museum"
    ELSE IF \/ Contains(c, "religious") \/ Contains(c, "mandir")
            \/ Contains(c, "temple") \/ Contains(c, "ashram") THEN "religious"
    ELSE IF Contains(c, "trek") THEN "treks"
    ELSE IF Contains(c, "adventure") \/ Contains(c, "one-day") THEN "adventure"
    ELSE IF Contains(c, "wildlife") \/ Contains(c, "nature") THEN "wildlife"
    ELSE IF Contains(c, "picnic") THEN "picnic"
    ELSE IF Contains(c, "wine") THEN "wine"
    ELSE IF Contains(c, "shopping") THEN "shopping"
    ELSE c

(***************************************************************************)
(* data_service.search_api: what it makes of one response of the catalog   *)
(* provider.  A response is [ok, items]: ok is FALSE when the request      *)
(* timed out or failed.                                                    *)
(***************************************************************************)
FailedFetch == [ok |-> FALSE, items |-> <<>>]

\* f"{item.get(key, '')}"
Fmt(item, key) == IF key \in DOMAIN item THEN item[key] ELSE ""

\* intent.get("keywords", [])
Keywords(intent) == IF "keywords" \in DOMAIN intent THEN intent.keywords ELSE <<>>

score_item(item, intent) ==
    LET text == Lower(Fmt(item, "sub_category") \o " " \o Fmt(item, "category")
                      \o " " \o Fmt(item, "description"))
    IN Cardinality({k \in 1..Len(Keywords(intent)) : Contains(text, Keywords(intent)[k])})

\* lines 451 and 458: the two derived fields set on every fetched record
Normalized(item, intent) ==
    [k \in DOMAIN item \cup {"normalized_category", "_score"} |->
        IF k = "normalized_category" THEN canonical_category(Get(item, "category"))
        ELSE IF k = "_score" THEN score_item(item, intent)
        ELSE item[k]]

\* Python's stable sort, highest key first: an element goes behind the
\* elements of higher key and behind the earlier elements of equal key
SortDescBy(xs, Key(_)) ==
    LET n == Len(xs)
        Before(i) == {j \in 1..n : \/ Key(xs[j]) > Key(xs[i])
                                   \/ (Key(xs[j]) = Key(xs[i]) /\ j < i)}
        at == [i \in 1..n |-> Cardinality(Before(i)) + 1]
    IN SubSeq([r \in 1..n |-> xs[CHOOSE i \in 1..n : at[i] = r]], 1, n)

\* matched.sort(key=lambda x: x["_score"], reverse=True)
SortByScore(xs) ==
    LET Score(item) == item._score IN SortDescBy(xs, Score)

HasScore(item) == item._score > 0

\* lines 449-459: every fetched record with its two derived fields
NormalizedAll(items, intent) ==
    SubSeq([i \in 1..Len(items) |-> Normalized(items[i], intent)], 1, Len(items))

\* Ranked without the sort of line 464
Ranked_unsorted(normalized, matched, limit) ==
    IF matched # <<>> THEN Take(matched, limit)
    ELSE Take(normalized, limit)

\* lines 461-468: the scored records by score when there are any, the
\* records as fetched otherwise
Ranked(normalized, matched, limit) ==
    IF matched # <<>> THEN Take(SortByScore(matched), limit)
    ELSE Take(normalized, limit)

\* the records kept of the normalized ones
Matched(normalized, limit) == Ranked(normalized, Filter(normalized, HasScore), limit)

search_api(fetched, intent, limit) ==
    IF ~fetched.ok THEN <<>>
    ELSE Matched(NormalizedAll(fetched.items, intent), limit)

(***************************************************************************)
(* rag_service: the catalog filter                                         *)
(***************************************************************************)
MAX_RESULTS == 8
SEARCH_LIMIT == 30

\* the raw category read instead of the canonical one
ItemCategory_raw(item) == Strip(Or(Get(item, "category"), ""))

\* (item.get("normalized_category") or "").strip()
ItemCategory(item) == Strip(Or(Get(item, "normalized_category"), ""))

\* (intent.get("search_domain") or "").lower().strip()
IntentCategory(intent) == Strip(Lower(Or(Get(intent, "search_domain"), "")))

_matches_intent_category(item, intent) ==
    IF intent.exploratory THEN ItemCategory(item) # ""
    ELSE ~(IntentCategory(intent) # "" /\ ItemCategory(item) # IntentCategory(intent))

\* rag_service.py lines 149-154 and 176-181
category_filter(items, intent) ==
    LET HasCategory(i) == ItemCategory(i) # ""
        InDomain(i) == ItemCategory(i) = IntentCategory(intent)
    IN IF intent.exploratory THEN Filter(items, HasCategory)
       ELSE IF IntentCategory(intent) # "" THEN Filter(items, InDomain)
       ELSE items

get_rag_items(fetched, intent) ==
    LET Matches(i) == _matches_intent_category(i, intent)
    IN Filter(category_filter(search_api(fetched, intent, SEARCH_LIMIT), intent), Matches)

\* lines 145-156 of get_rag_context on the items search_api returned
Selected(items, intent) ==
    LET Matches(i) == _matches_intent_category(i, intent)
    IN IF items = <<>> THEN <<>>
       ELSE Take(Filter(category_filter(items, intent), Matches), MAX_RESULTS)

\* the local `selected` of get_rag_context; <<>> on each early return
rag_selected(fetched, intent) ==
    Selected(search_api(fetched, intent, SEARCH_LIMIT), intent)

(***************************************************************************)
(* Function specification of the category functions                        *)
(***************************************************************************)
CatPieces ==
    {"Hotels & ", "Resort", "Villa", "Restaurants", "Cafe", "Medical", "Hospital",
     "Office", "Theater", "Theatre", "Museum", "Religious", "Temple", "Mandir",
     "Ashram", "Trek", "Adventure", "One-Day", "Wildlife", "Nature", "Picnic",
     "Wine", "Shopping", " Spa ", "Events"}

RawCategories == {Concat(ps) : ps \in SeqsUpTo(CatPieces, MaxCatPieces)}

FilterItems ==
    {[vendor_name |-> "A", category |-> "Hotels"],
     [vendor_name |-> "B", category |-> "Budget Hotels"],
     [vendor_name |-> "C", category |-> "Restaurants & Cafes"],
     [vendor_name |-> "D", category |-> "Museum"],
     [vendor_name |-> "E", category |-> ""],
     [vendor_name |-> "F", category |-> "Hospital"]}

FilterDomains == {None, "hotel", "restaurant", "museum", "ashram"}

FilterIntents ==
    {[exploratory |-> e, search_domain |-> d] : e \in BOOLEAN, d \in FilterDomains}

CatInputs ==
    {[fn |-> "canonical_category", raw |-> r, fetched |-> FailedFetch,
      intent |-> [exploratory |-> FALSE, search_domain |-> None]] : r \in RawCategories}
    \cup {[fn |-> "filter", raw |-> "", fetched |-> [ok |-> TRUE, items |-> c],
           intent |-> i] : c \in SeqsUpTo(FilterItems, MaxCatalog), i \in FilterIntents}

InitCat == Idle /\ fin \in CatInputs /\ fout = NoOut

ApplyCanonicalCategory ==
    /\ fin.fn = "canonical_category"
    /\ ~fout.done
    /\ fout' = [done |-> TRUE, value |-> canonical_category(fin.raw),
                rag_value |-> normalize_category(fin.raw)]
    /\ UNCHANGED <<memory, catalog, last, nreq, fin>>

ApplyFilter ==
    /\ fin.fn = "filter"
    /\ ~fout.done
    /\ fout' = [done |-> TRUE,
                slice |-> search_api(fin.fetched, fin.intent, SEARCH_LIMIT),
                items |-> get_rag_items(fin.fetched, fin.intent),
                selected |-> rag_selected(fin.fetched, fin.intent)]
    /\ UNCHANGED <<memory, catalog, last, nreq, fin>>

NextCat == ApplyCanonicalCategory \/ ApplyFilter

SpecCat == InitCat /\ [][NextCat]_vars

\* the substring rules in the priority order of the claim, with their tags
PriorityRules ==
    << [keys |-> {"hotel"}, tag |-> "hotel"],
       [keys |-> {"resort"}, tag |-> "resort"],
       [keys |-> {"villa"}, tag |-> "villa"],
       [keys |-> {"restaurant", "cafe"}, tag |-> "restaurant"],
       [keys |-> {"hospital", "medical"}, tag |-> "hospital"],
       [keys |-> {"office"}, tag |-> "office"],
       [keys |-> {"theater", "theatre"}, tag |-> "theater"],
       [keys |-> {"museum"}, tag |-> "museum"],
       [keys |-> {"religious", "temple", "mandir", "ashram"}, tag |-> "religious"],
       [keys |-> {"trek"}, tag |-> "treks"],
       [keys |-> {"adventure", "one-day"}, tag |-> "adventure"],
       [keys |-> {"wildlife", "nature"}, tag |-> "wildlife"],
       [keys |-> {"picnic"}, tag |-> "picnic"],
       [keys |-> {"wine"}, tag |-> "wine"],
       [keys |-> {"shopping"}, tag |-> "shopping"] >>

RulesMatching(c) ==
    {i \in 1..Len(PriorityRules) : \E k \in PriorityRules[i].keys : Contains(c, k)}

Canonicalized == fout.done /\ fin.fn = "canonical_category"

\* C6: the result of canonical_category is the tag of the earliest rule, in
\* the fixed priority order, one of whose substrings occurs in the lower-cased
\* trimmed input; an input matching no rule gives its lower-cased, trimmed self.
C6_FirstRuleWins ==
    Canonicalized =>
        LET c == Strip(Lower(fin.raw))
            m == RulesMatching(c)
        IN IF m = {} THEN fout.value = c
           ELSE fout.value = PriorityRules[CHOOSE i \in m : \A j \in m : i <= j].tag

\* an input containing both "hotel" and "restaurant" was canonicalized to hotel
C6_Witness ==
    /\ Canonicalized
    /\ fin.raw = "Hotels & Restaurants"
    /\ Cardinality(RulesMatching(Strip(Lower(fin.raw)))) = 2
    /\ fout.value = "hotel"

Filtered == fout.done /\ fin.fn = "filter"

ExploratoryExcluded == {"hotel", "resort", "villa", "hospital", "office"}

\* C2: in exploratory mode no item of the filter's output (the result of
\* get_rag_items, the selected items of get_rag_context) is canonicalized as
\* hotel, resort, villa, hospital or office.
C2_ExploratoryExcludes ==
    (Filtered /\ fin.intent.exploratory) =>
        /\ \A i \in 1..Len(fout.items) :
              fout.items[i].normalized_category \notin ExploratoryExcluded
        /\ \A i \in 1..Len(fout.selected) :
              fout.selected[i].normalized_category \notin ExploratoryExcluded

\* C7: in strict mode with a search domain the filter's output is exactly the
\* items of the scored slice whose canonical category equals the domain, in
\* their order in the slice; with no search domain it is the whole slice.
C7_StrictFilter ==
    (Filtered /\ ~fin.intent.exploratory) =>
        LET d == fin.intent.search_domain
            OfDomain(i) == i.normalized_category = d
        IN /\ d # None =>
                /\ \A i \in 1..Len(fout.items) : fout.items[i].normalized_category = d
                /\ fout.items = SelectSeq(fout.slice, OfDomain)
           /\ d = None => fout.items = fout.slice
           /\ fout.selected = Take(fout.items, MAX_RESULTS)

\* strict mode kept the two hotels, in order, and dropped the restaurant
\* between them
C7_Witness ==
    /\ Filtered
    /\ ~fin.intent.exploratory
    /\ fin.intent.search_domain = "hotel"
    /\ Len(fout.slice) = 3
    /\ fout.slice[1].vendor_name = "B"
    /\ fout.slice[2].vendor_name = "C"
    /\ fout.slice[3].vendor_name = "A"
    /\ Len(fout.items) = 2
    /\ fout.items[1].vendor_name = "B"
    /\ fout.items[2].vendor_name = "A"

(***************************************************************************)
(* intent_service: the tables and detect_intent                            *)
(***************************************************************************)
ATTRIBUTE_KEYWORDS ==
    <<
    [attr |-> "rating", keywords |-> <<"rating", "stars", "star">>],
    [attr |-> "address", keywords |-> <<"address", "where">>],
    [attr |-> "phone", keywords |-> <<"phone", "contact", "number">>],
    [attr |-> "amenities", keywords |-> <<"amenities", "facilities", "features">>],
    [attr |-> "parking", keywords |-> <<"parking">>],
    [attr |-> "pet_friendly", keywords |-> <<"pet", "pets", "pet-friendly">>],
    [attr |-> "price", keywords |-> <<"price", "cost", "tariff", "rate", "rates">>],
    [attr |-> "map", keywords |-> <<"map", "directions", "location">>],
    [attr |-> "vendor_name", keywords |-> <<"vendor name", "vendor">>],
    [attr |-> "wifi", keywords |-> <<"wifi", "wi-fi", "internet">>],
    [attr |-> "pool", keywords |-> <<"pool", "swimming">>],
    [attr |-> "bonfire", keywords |-> <<"bonfire">>],
    [attr |-> "google_location", keywords |-> <<"google location">>],
    [attr |-> "website", keywords |-> <<"website", "site", "url">>],
    [attr |-> "kitchen_available", keywords |-> <<"kitchen">>],
    [attr |-> "food_available", keywords |-> <<"food">>],
    [attr |-> "taxes_included", keywords |-> <<"tax", "taxes", "tax included">>],
    [attr |-> "price_unit", keywords |-> <<"price_unit", "unit">>],
    [attr |-> "cancellation", keywords |-> <<"cancellation", "cancel">>],
    [attr |-> "air_conditioned", keywords |-> <<"ac", "air conditioned", "air-conditioning">>]
    >>

PHRASE_TO_CATEGORY ==
    <<
    [phrase |-> "wine shop", category |-> "wine"],
    [phrase |-> "wine shops", category |-> "wine"],
    [phrase |-> "one day trip", category |-> "adventure"],
    [phrase |-> "one-day trip", category |-> "adventure"],
    [phrase |-> "day trips", category |-> "adventure"],
    [phrase |-> "guided tour", category |-> "tours"],
    [phrase |-> "guided tours", category |-> "tours"],
    [phrase |-> "picnic spot", category |-> "picnic"],
    [phrase |-> "picnic spots", category |-> "picnic"],
    [phrase |-> "movie theater", category |-> "theater"],
    [phrase |-> "movie theatres", category |-> "theater"],
    [phrase |-> "religious services", category |-> "religious"],
    [phrase |-> "mandir", category |-> "religious"],
    [phrase |-> "mandirs", category |-> "religious"],
    [phrase |-> "temples", category |-> "religious"],
    [phrase |-> "temple", category |-> "religious"],
    [phrase |-> "movie", category |-> "theater"],
    [phrase |-> "movies", category |-> "theater"],
    [phrase |-> "cinema", category |-> "theater"],
    [phrase |-> "cafe", category |-> "restaurant"],
    [phrase |-> "cafes", category |-> "restaurant"],
    [phrase |-> "trekking", category |-> "treks"],
    [phrase |-> "trek", category |-> "treks"],
    [phrase |-> "treks", category |-> "treks"],
    [phrase |-> "vineyard", category |-> "wine"],
    [phrase |-> "vineyards", category |-> "wine"],
    [phrase |-> "winery", category |-> "wine"],
    [phrase |-> "wineries", category |-> "wine"],
    [phrase |-> "wine", category |-> "wine"],
    [phrase |-> "ashram", category |-> "ashram"],
    [phrase |-> "ashrams", category |-> "ashram"],
    [phrase |-> "resort", category |-> "resort"],
    [phrase |-> "resorts", category |-> "resort"],
    [phrase |-> "villa", category |-> "villa"],
    [phrase |-> "villas", category |-> "villa"],
    [phrase |-> "hotel", category |-> "hotel"],
    [phrase |-> "hotels", category |-> "hotel"],
    [phrase |-> "restaurant", category |-> "restaurant"],
    [phrase |-> "restaurants", category |-> "restaurant"],
    [phrase |-> "hospital", category |-> "hospital"],
    [phrase |-> "hospitals", category |-> "hospital"],
    [phrase |-> "clinic", category |-> "hospital"],
    [phrase |-> "medical", category |-> "hospital"],
    [phrase |-> "office", category |-> "office"],
    [phrase |-> "offices", category |-> "office"],
    [phrase |-> "theater", category |-> "theater"],
    [phrase |-> "theatre", category |-> "theater"],
    [phrase |-> "theatres", category |-> "theater"],
    [phrase |-> "museum", category |-> "museum"],
    [phrase |-> "museums", category |-> "museum"],
    [phrase |-> "event", category |-> "events"],
    [phrase |-> "events", category |-> "events"],
    [phrase |-> "festival", category |-> "events"],
    [phrase |-> "festivals", category |-> "events"],
    [phrase |-> "mosque", category |-> "religious"],
    [phrase |-> "church", category |-> "religious"],
    [phrase |-> "worship", category |-> "religious"]
    >>

PURE_CATEGORY_WORDS ==
    {
    "ashram", "ashrams", "cafe", "cafes", "cinema", "food", "hospital",
    "hospitals", "hotel", "hotels", "lodging", "medical", "movies",
    "nashik", "office", "offices", "resort", "resorts", "restaurant",
    "restaurants", "theater", "theatres", "villa", "villas"
    }

STOPWORDS ==
    {
    "a", "about", "address", "amenities", "an", "bonfire", "cancel",
    "cancellation", "directions", "do", "does", "find", "food", "has",
    "have", "hotel", "internet", "is", "kitchen", "location", "map", "me",
    "of", "phone", "pool", "price", "rating", "show", "site", "something",
    "swimming", "tax", "taxes", "tell", "the", "unit", "url", "website",
    "what", "what's", "where", "wi-fi", "wifi"
    }

DOMAIN_KEYWORDS ==
    <<
    [domain |-> "hotel", keywords |->
        <<
          "hotel", "hotels", "stay", "stays", "lodging", "accommodation"
        >>],
    [domain |-> "resort", keywords |->
        <<
          "resort", "resorts"
        >>],
    [domain |-> "villa", keywords |->
        <<
          "villa", "villas"
        >>],
    [domain |-> "restaurant", keywords |->
        <<
          "restaurant", "restaurants", "cafe", "cafes", "food",
          "restaurants & cafes", "eating", "dining", "eat"
        >>],
    [domain |-> "events", keywords |->
        <<
          "event", "events", "festival", "festivals", "festivities",
          "happenings", "events & festivals"
        >>],
    [domain |-> "treks", keywords |->
        <<
          "trek", "treks", "hiking", "trekking", "trail", "trails"
        >>],
    [domain |-> "activities", keywords |->
        <<
          "activity", "activities", "things to do", "city activities",
          "city activity", "things to do in city"
        >>],
    [domain |-> "wine", keywords |->
        <<
          "wine", "vineyard", "winery", "wineries"
        >>],
    [domain |-> "shopping", keywords |->
        <<
          "shopping", "mall", "market", "malls", "markets", "shop", "stores"
        >>],
    [domain |-> "religious", keywords |->
        <<
          "temple", "mosque", "church", "religious", "religious services",
          "worship"
        >>],
    [domain |-> "wellness", keywords |->
        <<
          "ayurveda", "spa", "wellness", "ayurvedic", "massage", "retreat",
          "wellness center", "ayurveda & wellness"
        >>],
    [domain |-> "kids", keywords |->
        <<
          "kids", "children", "activities for kids", "kids activities",
          "children activities", "family activities",
          "activities for children"
        >>],
    [domain |-> "attractions", keywords |->
        <<
          "attraction", "attractions", "places to visit",
          "places to explore", "places to see", "places to discover"
        >>],
    [domain |-> "visitors", keywords |->
        <<
          "visitor", "visitors", "visitor visit", "visitor visits"
        >>],
    [domain |-> "art", keywords |->
        <<
          "art", "art gallery", "art galleries", "art museum", "art museums"
        >>],
    [domain |-> "museum", keywords |->
        <<
          "museum", "museums", "museum visit", "museum visits"
        >>],
    [domain |-> "history", keywords |->
        <<
          "history", "historical", "historical places",
          "historical places to visit", "historical places to see",
          "historical places to explore", "historical places to discover"
        >>],
    [domain |-> "hospital", keywords |->
        <<
          "healthcare", "hospital", "hospitals", "clinic", "medical",
          "nursing", "management", "dental", "health", "diagnostic",
          "pathology", "care center", "iccu", "icu", "selfcare",
          "emergency", "emergency services", "medical services",
          "ambulance", "doctor", "pharmacy", "emergency & medical"
        >>],
    [domain |-> "ashram", keywords |->
        <<
          "ashram", "ashrams", "ashram visit", "ashram visits"
        >>],
    [domain |-> "office", keywords |->
        <<
          "office", "offices", "office visit", "office visits",
          "virtual office", "virtual offices", "coworking",
          "coworking space", "workspace"
        >>],
    [domain |-> "theater", keywords |->
        <<
          "movie", "movies", "movie theater", "movie theaters", "theater",
          "theatre", "theaters", "theatres", "cinema"
        >>],
    [domain |-> "adventure", keywords |->
        <<
          "adventure", "one-day trip", "day trip", "one day trip",
          "day trips", "adventure activities", "adventure & one-day trips"
        >>],
    [domain |-> "wildlife", keywords |->
        <<
          "wildlife", "nature", "safari", "national park", "nature spots",
          "wildlife sanctuary", "wildlife & nature", "nature spots"
        >>],
    [domain |-> "picnic", keywords |->
        <<
          "picnic", "picnic spot", "picnic spots", "picnic area",
          "picnic spots"
        >>],
    [domain |-> "tours", keywords |->
        <<
          "guided tour", "guided tours", "tours", "tour", "sightseeing",
          "guided tours"
        >>],
    [domain |-> "today_happenings", keywords |->
        <<
          "today's happenings", "today happenings", "what's on today",
          "whats on today", "going on today", "today events",
          "happenings today", "today's happenings",
          "what is happening today"
        >>]
    >>

\* any(k in q for k in keys)
AnyIn(q, keys) == \E i \in 1..Len(keys) : Contains(q, keys[i])

\* the phrase table walked as declared, without the sort of line 101
SortedPhrases_declared == PHRASE_TO_CATEGORY

\* sorted(PHRASE_TO_CATEGORY, key=lambda x: -len(x[0]))
SortedPhrases ==
    LET PhraseLen(row) == Len(row.phrase) IN SortDescBy(PHRASE_TO_CATEGORY, PhraseLen)

\* the first row of a table that Hit accepts, 0 when none does
FirstRow(table, Hit(_)) ==
    IF \E i \in 1..Len(table) : Hit(table[i])
    THEN CHOOSE i \in 1..Len(table) : Hit(table[i]) /\ \A j \in 1..(i - 1) : ~Hit(table[j])
    ELSE 0

\* table[i].category, None when i is 0
CategoryAt(table, i) == IF i = 0 THEN None ELSE table[i].category

resolve_query_to_category(query) ==
    LET q == Strip(Lower(query))
        Occurs(row) == Contains(q, row.phrase)
    IN CategoryAt(SortedPhrases, FirstRow(SortedPhrases, Occurs))

RECURSIVE LetterRuns(_, _, _, _)
\* re.findall(r"\b[a-zA-Z]{3,}\b", q): the maximal runs of letters, at least
\* three long, with no digit or underscore next to them
LetterRuns(q, i, start, acc) ==
    LET closed == IF /\ start > 0
                     /\ i - start >= 3
                     /\ (start = 1 \/ ~IsWordCh(Ch(q, start - 1)))
                     /\ (i > Len(q) \/ ~IsWordCh(Ch(q, i)))
                  THEN Append(acc, SubSeq(q, start, i - 1))
                  ELSE acc
    IN IF i > Len(q) THEN closed
       ELSE IF IsLetter(Ch(q, i))
            THEN LetterRuns(q, i + 1, IF start = 0 THEN i ELSE start, acc)
            ELSE LetterRuns(q, i + 1, 0, closed)

EXPLORATORY_PHRASES ==
    <<"fun activities", "things to do", "what to do", "discover", "explore",
      "experiences", "activities in", "fun in", "something to do">>

LIST_WORDS == <<"show", "list", "find", "search">>
DETAIL_WORDS == <<"tell", "about", "details">>
GENERAL_WORDS == <<"who are you", "what can you do", "about yourself", "hey", "hi">>

MUST_HAVE_RULES ==
    << [flag |-> "pool", keywords |-> <<"pool">>],
       [flag |-> "family", keywords |-> <<"family">>],
       [flag |-> "couple", keywords |-> <<"couple">>],
       [flag |-> "luxury", keywords |-> <<"luxury">>],
       [flag |-> "budget", keywords |-> <<"budget", "cheap">>] >>

\* the rows of a table one of whose keywords occurs in q, in table order
RowsIn(q, table) ==
    LET Occurs(row) == AnyIn(q, row.keywords) IN Filter(table, Occurs)

NotStopword(t) == t \notin STOPWORDS

\* table[i].domain, None when i is 0
DomainAt(table, i) == IF i = 0 THEN None ELSE table[i].domain

\* the column col of the rows of a table
Column(rows, col) == SubSeq([i \in 1..Len(rows) |-> rows[i][col]], 1, Len(rows))

\* " ".join(tokens) if tokens else None
JoinedOrNone(tokens) == IF tokens # <<>> THEN Join(tokens, " ") ELSE None

\* the first element of a list, None of an empty one
FirstOrNone(xs) == IF xs # <<>> THEN xs[1] ELSE None

\* the intent of detect_intent before the type classification (lines 133-235)
BaseIntent(query) ==
    LET q == Lower(query)
        Occurs(row) == AnyIn(q, row.keywords)
    IN [raw_query |-> query,
        action |-> IF AnyIn(q, LIST_WORDS) THEN "list"
                   ELSE IF AnyIn(q, DETAIL_WORDS) THEN "detail"
                   ELSE IF AnyIn(q, GENERAL_WORDS) THEN "general"
                   ELSE "search",
        search_domain |-> Or(resolve_query_to_category(query),
                             DomainAt(DOMAIN_KEYWORDS, FirstRow(DOMAIN_KEYWORDS, Occurs))),
        attributes |-> Column(RowsIn(q, ATTRIBUTE_KEYWORDS), "attr"),
        must_have |-> Column(RowsIn(q, MUST_HAVE_RULES), "flag"),
        entity |-> JoinedOrNone(Filter(LetterRuns(q, 1, 0, <<>>), NotStopword)),
        exploratory |-> AnyIn(q, EXPLORATORY_PHRASES)]

\* set(entity_lower.split())
WordSet(words) == {words[i] : i \in 1..Len(words)}

\* the classification without the is_pure_category test of line 249
Classified_without_pure_check(intent) ==
    IF intent.action = "detail" /\ Or(intent.entity, "") # ""
    THEN intent @@ [type |-> "entity_lookup", entity_name |-> Strip(intent.entity)]
    ELSE intent

\* lines 237-252: the type classification of an intent
Classified(intent) ==
    LET entity_val == Or(intent.entity, "")
        entity_lower == Strip(Lower(entity_val))
        entity_words == WordSet(Split(entity_lower))
        is_pure_category ==
            \/ Cardinality(entity_words) = 1 /\ entity_lower \in PURE_CATEGORY_WORDS
            \/ entity_words # {} /\ entity_words \subseteq PURE_CATEGORY_WORDS
    IN IF intent.action = "detail" /\ entity_val # "" /\ ~is_pure_category
       THEN intent @@ [type |-> "entity_lookup", entity_name |-> Strip(entity_val)]
       ELSE intent

detect_intent(query) == Classified(BaseIntent(query))

extract_intent(query) == detect_intent(query)

detect_attribute(query) == FirstOrNone(detect_intent(query).attributes)

(***************************************************************************)
(* Python values of mixed type (the fields of an entity, of a card) carry  *)
(* their type: none, str, int, bool or list.                               *)
(***************************************************************************)
NoneV == [t |-> "none", v |-> ""]
StrV(x) == [t |-> "str", v |-> x]
IntV(n) == [t |-> "int", v |-> n]
BoolV(b) == [t |-> "bool", v |-> b]
ListV(xs) == [t |-> "list", v |-> xs]

\* bool(x)
TruthyV(x) ==
    CASE x.t = "none" -> FALSE
      [] x.t = "str" -> x.v # ""
      [] x.t = "int" -> x.v # 0
      [] x.t = "bool" -> x.v
      [] OTHER -> x.v # <<>>

\* a or b
OrV(a, b) == IF TruthyV(a) THEN a ELSE b

\* f"{x}"
Text(x) ==
    CASE x.t = "none" -> "None"
      [] x.t = "str" -> x.v
      [] x.t = "int" -> ToString(x.v)
      [] x.t = "bool" -> IF x.v THEN "True" ELSE "False"
      [] OTHER -> "[...]"

IntFields == {"star_rating", "rating", "price_from"}
ListFields == {"amenities_gallery", "gallery_images"}

\* record.get(key) of a catalog record, with the type the catalog gives the field
Field(item, key) ==
    IF key \notin DOMAIN item THEN NoneV
    ELSE IF key \in IntFields THEN IntV(item[key])
    ELSE IF key \in ListFields THEN ListV(item[key])
    ELSE IF item[key] = None THEN NoneV
    ELSE StrV(item[key])

\* utils.image_utils.build_image_url: the public URL of a stored image path
build_image_url(path) ==
    IF TruthyV(path) THEN StrV("https://images/" \o Text(path)) ELSE NoneV

\* the image_url set on every fetched record (data_service.py lines 177-183)
ImageUrl(item) ==
    build_image_url(
        IF TruthyV(Field(item, "thumbnail_image")) THEN Field(item, "thumbnail_image")
        ELSE IF TruthyV(Field(item, "gallery_images")) THEN StrV(Field(item, "gallery_images").v[1])
        ELSE NoneV)

\* hotel.get(key) == "Y" or hotel.get(key) == True
Flag(hotel, key) == BoolV(Field(hotel, key) = StrV("Y"))

\* any(word in a for a in amenities_lower)
AnyAmenity(amenities, words) ==
    \E i \in 1..Len(amenities) : \E w \in words : Contains(Lower(amenities[i]), w)

normalize_hotel_entity(hotel) ==
    LET amenities_list == Field(hotel, "amenities_gallery").v
        amenities == IF Field(hotel, "amenities_gallery").t = "list" THEN amenities_list ELSE <<>>
    IN [name |-> OrV(Field(hotel, "name"), Field(hotel, "vendor_name")),
        rating |-> Field(hotel, "star_rating"),
        address |-> Field(hotel, "address"),
        phone |-> Field(hotel, "phone"),
        email |-> Field(hotel, "email"),
        website |-> Field(hotel, "website"),
        pet_friendly |-> Flag(hotel, "pet_friendly"),
        parking |-> Flag(hotel, "parking_available"),
        air_conditioned |-> Flag(hotel, "air_conditioned"),
        food_available |-> Flag(hotel, "food_available"),
        price_from |-> Field(hotel, "price_from"),
        price_unit |-> Field(hotel, "price_unit"),
        map |-> Field(hotel, "google_location"),
        amenities |-> ListV(amenities),
        wifi |-> BoolV(AnyAmenity(amenities, {"wifi", "wi-fi"})),
        pool |-> BoolV(AnyAmenity(amenities, {"pool"})),
        bonfire |-> BoolV(AnyAmenity(amenities, {"bonfire"})),
        google_location |-> Field(hotel, "google_location"),
        kitchen_available |-> Flag(hotel, "kitchen_available"),
        taxes_included |-> Flag(hotel, "taxes_included"),
        cancellation |-> Field(hotel, "cancellation"),
        image_url |-> ImageUrl(hotel),
        area_name |-> Field(hotel, "area_name"),
        zone_name |-> Field(hotel, "zone_name"),
        description |-> OrV(Field(hotel, "description"), Field(hotel, "short_description")),
        table_id |-> Field(hotel, "table_id"),
        category_id |-> Field(hotel, "category_id")]

NoEntity == [found |-> FALSE, data |-> [name |-> NoneV]]

\* data_service.resolve_entity on one response of the catalog provider
resolve_entity(entity_name, fetched) ==
    LET m == resolve_match(entity_name, fetched.items)
    IN IF ~fetched.ok \/ fetched.items = <<>> \/ m.pass = 0 THEN NoEntity
       ELSE [found |-> TRUE, data |-> normalize_hotel_entity(fetched.items[m.index])]

(***************************************************************************)
(* data_service.format_attribute_answer                                    *)
(***************************************************************************)
IsDigits(x) ==
    /\ x # ""
    /\ \A i \in 1..Len(x) : \E d \in 1..10 : Ch(Digits, d) = Ch(x, i)

\* float(value) succeeds: on an integer, on a string of digits
FloatOk(value) == value.t \in {"int", "bool"} \/ (value.t = "str" /\ IsDigits(value.v))

\* f"{float(value)}" of a whole number: 4 gives 4.0
FloatText(value) ==
    IF value.t = "bool" THEN (IF value.v THEN "1.0" ELSE "0.0") ELSE Text(value) \o ".0"

\* ", ".join(value[:5]), with " and N more" behind a longer list
AmenitiesText(value) ==
    Join(Take(value, 5), ", ")
    \o (IF Len(value) > 5 THEN " and " \o ToString(Len(value) - 5) \o " more" ELSE "")

\* "has" if value else "does not have"
HasOrNot(value, yes, no) == IF TruthyV(value) THEN yes ELSE no

format_attribute_answer(entity_data, attribute, value) ==
    LET entity_name == Text(IF "name" \in DOMAIN entity_data THEN entity_data.name
                            ELSE StrV("This hotel"))
        price_unit == IF "price_unit" \in DOMAIN entity_data
                      THEN Text(entity_data.price_unit) ELSE ""
    IN IF attribute = "price"
       THEN IF "price_from" \in DOMAIN entity_data /\ TruthyV(entity_data.price_from)
            THEN Strip(entity_name \o "'s price starts from " \o Text(entity_data.price_from)
                       \o " " \o price_unit \o ".")
            ELSE entity_name \o " does not have price information available."
       ELSE IF value.t = "none" \/ (value.t = "str" /\ value.v = "")
       THEN entity_name \o " does not have " \o attribute \o " information available."
       ELSE IF attribute = "rating"
       THEN IF FloatOk(value)
            THEN entity_name \o " has a " \o FloatText(value) \o "-star rating."
            ELSE entity_name \o " has a rating of " \o Text(value) \o "."
       ELSE IF attribute = "address"
       THEN entity_name \o " is located at " \o Text(value) \o "."
       ELSE IF attribute = "phone"
       THEN entity_name \o "'s phone number is " \o Text(value) \o "."
       ELSE IF attribute = "amenities"
       THEN IF value.t = "list" /\ value.v # <<>>
            THEN entity_name \o " offers: " \o AmenitiesText(value.v) \o "."
            ELSE entity_name \o " does not have amenities information available."
       ELSE IF attribute = "parking"
       THEN entity_name \o " " \o HasOrNot(value, "has", "does not have") \o " parking available."
       ELSE IF attribute = "pet_friendly"
       THEN entity_name \o " is " \o HasOrNot(value, "pet-friendly", "not pet-friendly") \o "."
       ELSE IF attribute = "map"
       THEN IF TruthyV(value) THEN entity_name \o "'s location: " \o Text(value)
            ELSE entity_name \o " does not have location/map information available."
       ELSE IF attribute = "wifi"
       THEN entity_name \o " " \o HasOrNot(value, "has", "does not have") \o " WiFi available."
       ELSE IF attribute = "pool"
       THEN entity_name \o " " \o HasOrNot(value, "has", "does not have") \o " a pool."
       ELSE IF attribute = "bonfire"
       THEN entity_name \o " " \o HasOrNot(value, "has", "does not have") \o " bonfire facilities."
       ELSE IF attribute = "google_location"
       THEN IF TruthyV(value) THEN entity_name \o " is located at " \o Text(value) \o "."
            ELSE entity_name \o " does not have location information available."
       ELSE IF attribute = "website"
       THEN IF TruthyV(value) THEN entity_name \o "'s website is " \o Text(value) \o "."
            ELSE entity_name \o " does not have a website listed."
       ELSE IF attribute = "kitchen_available"
       THEN entity_name \o " " \o HasOrNot(value, "has", "does not have") \o " a kitchen available."
       ELSE IF attribute = "food_available"
       THEN entity_name \o " " \o HasOrNot(value, "has", "does not have") \o " food available."
       ELSE IF attribute = "taxes_included"
       THEN entity_name \o " " \o HasOrNot(value, "includes", "does not include")
            \o " taxes in the price."
       ELSE IF attribute = "price_unit"
       THEN IF TruthyV(value) THEN entity_name \o "'s price is per " \o Text(value) \o "."
            ELSE entity_name \o " does not have price unit information available."
       ELSE IF attribute = "cancellation"
       THEN IF TruthyV(value) THEN entity_name \o "'s cancellation policy: " \o Text(value) \o "."
            ELSE entity_name \o " does not have cancellation policy information available."
       ELSE IF attribute = "air_conditioned"
       THEN IF TruthyV(value) THEN entity_name \o " has air-conditioned rooms."
            ELSE entity_name \o " does not have  air-conditioned rooms."
       ELSE None

(***************************************************************************)
(* llm_service.answer_with_ai.  The language model's reply is             *)
(* [ok, text]: ok is FALSE when the call to the model raises.              *)
(***************************************************************************)
NO_DATA == "No matching data found in our listings."

\* [called, raised, text]: whether the model was called, whether the call
\* raised, the answer returned otherwise
answer_with_ai(query, context, reply) ==
    IF context = "" \/ Strip(context) = ""
    THEN [called |-> FALSE, raised |-> FALSE, text |-> NO_DATA]
    ELSE IF reply.ok
    THEN [called |-> TRUE, raised |-> FALSE, text |-> Strip(reply.text)]
    ELSE [called |-> TRUE, raised |-> TRUE, text |-> ""]

(***************************************************************************)
(* rag_service: context assembly                                           *)
(***************************************************************************)
DESC_LIMIT == 200

\* desc[:200].rstrip() + "..." for a longer description
Truncated(desc) ==
    IF desc # "" /\ Len(desc) > DESC_LIMIT
    THEN RStrip(SubSeq(desc, 1, DESC_LIMIT)) \o "..."
    ELSE desc

_format_item(item, index) ==
    LET name == OrV(OrV(Field(item, "vendor_name"), Field(item, "name")), StrV("Unknown"))
        category == OrV(OrV(Field(item, "category"), Field(item, "type")), StrV(""))
        area == OrV(OrV(OrV(Field(item, "area_name"), Field(item, "zone_name")),
                        Field(item, "area")), StrV(""))
        rating == OrV(OrV(Field(item, "rating"), Field(item, "star_rating")), StrV(""))
        address == OrV(OrV(OrV(Field(item, "address"), Field(item, "location")),
                           Field(item, "area_name")), StrV(""))
        desc == OrV(OrV(Field(item, "short_description"), Field(item, "description")), StrV(""))
    IN "[" \o ToString(index) \o "]\n"
       \o "Name: " \o Text(name) \o "\n"
       \o "Category: " \o Text(category) \o "\n"
       \o "Area: " \o Text(area) \o "\n"
       \o "Rating: " \o Text(rating) \o "\n"
       \o "Address: " \o Text(address) \o "\n"
       \o "Description: " \o Truncated(Text(desc)) \o "\n"
       \o "----"

\* "\n".join(_format_item(it, i) for i, it in enumerate(selected, 1))
FormatAll(selected) ==
    Join(SubSeq([i \in 1..Len(selected) |-> _format_item(selected[i], i)],
                1, Len(selected)), "\n")

get_rag_context(fetched, intent) == Strip(FormatAll(rag_selected(fetched, intent)))

(***************************************************************************)
(* services.memory_service: the conversation log of one user               *)
(***************************************************************************)
save_message(log, role, content) == Append(log, [role |-> role, content |-> content])

get_recent_messages(log) == log

(***************************************************************************)
(* main.ask_ai: one /ask request, from the credential check to the         *)
(* response.  A request is [authorization, query]; env holds what the      *)
(* collaborators answer during the request: env.resolve, env.context and   *)
(* env.items are the catalog provider's responses to the fetch of          *)
(* resolve_entity, of get_rag_context and of get_rag_items, env.reply is   *)
(* the language model's reply.                                             *)
(*                                                                         *)
(* The outcome is [status, answer, cards, memory, effective, llm_calls,    *)
(* fetches, resolves, path]: the HTTP status, the body, the user's log     *)
(* after the request, the query handed to extract_intent (None when the    *)
(* request never got there), the number of calls to the language model,    *)
(* of catalog fetches and of resolve_entity calls, and the return          *)
(* statement that ended the request.                                       *)
(***************************************************************************)
GREETING_ANSWER ==
    "Hey! I'm Anvi, I can help you with hotel searches, place details, "
    \o "and travel-related questions based on our available data.\n\n"
    \o "Just tell me what you're looking for"

CONVERSATIONAL_KEYWORDS ==
    {"hi", "hello", "hey", "good morning", "good evening", "good afternoon",
     "what can you help me with", "what can you do", "how can you help me",
     "what do you do"}

\* DOMAIN_KEYWORDS of ask_ai (main.py lines 99-103)
ASK_DOMAIN_KEYWORDS ==
    {"hotel", "hotels", "stay", "resort", "villa", "price", "budget", "luxury",
     "rating", "address", "amenities", "location", "near", "in"}

\* stopwords of the override (main.py lines 235-241)
OVERRIDE_STOPWORDS ==
    {"what", "is", "the", "of", "tell", "me", "about", "in", "at", "near",
     "rating", "price", "address", "amenities", "phone", "location", "where",
     "map", "directions", "hotel", "hotels", "does", "do", "have", "has",
     "a", "an", "what's", "show", "find", "something", "nashik", "budget",
     "luxury", "family", "couple", "pool", "wifi", "kitchen", "food"}

MAX_CONVERSATIONAL_WORDS == 8
MAX_SUMMARY_AMENITIES == 12

StartsWith(x, prefix) ==
    Len(x) >= Len(prefix) /\ SubSeq(x, 1, Len(prefix)) = prefix

\* authorization.split(" ", 1)[1].strip()
BearerToken(authorization) == Strip(SubSeq(authorization, 8, Len(authorization)))

is_conversational(q_lower) ==
    /\ \E k \in CONVERSATIONAL_KEYWORDS : Contains(q_lower, k)
    /\ ~\E d \in ASK_DOMAIN_KEYWORDS : Contains(q_lower, d)
    /\ Len(Split(q_lower)) <= MAX_CONVERSATIONAL_WORDS

Outcome(status, answer, cards, log, effective, llm, fetches, resolves, path) ==
    [status |-> status, answer |-> answer, cards |-> cards, memory |-> log,
     effective |-> effective, llm_calls |-> llm, fetches |-> fetches,
     resolves |-> resolves, path |-> path]

\* raise HTTPException(status_code=500, detail="Internal Server Error")
InternalError(log, effective, llm, fetches, resolves) ==
    Outcome(500, "Internal Server Error", <<>>, log, effective, llm, fetches, resolves, "error")

\* the card of a list answer (main.py lines 350-357)
ListCard(item) ==
    [title |-> Field(item, "vendor_name"),
     subtitle |-> Field(item, "area_name"),
     rating |-> Field(item, "star_rating"),
     address |-> Field(item, "address"),
     description |-> Field(item, "description"),
     image |-> ImageUrl(item)]

\* the card of a single resolved entity (main.py lines 208-215, 302-309)
EntityCard(entity_data) ==
    [title |-> entity_data.name,
     subtitle |-> OrV(OrV(entity_data.area_name, entity_data.zone_name), StrV("")),
     rating |-> entity_data.rating,
     address |-> entity_data.address,
     description |-> OrV(entity_data.description, StrV("")),
     image |-> entity_data.image_url]

\* the one-entity context of a summary (main.py lines 173-192, 267-286)
EntityContext(entity_data) ==
    LET amenities == entity_data.amenities.v
        amenities_str == IF amenities # <<>>
                         THEN Join(Take(amenities, MAX_SUMMARY_AMENITIES), ", ")
                         ELSE "Not provided"
        description == Truncated(Text(OrV(entity_data.description, StrV("Not provided"))))
    IN "[1]\n"
       \o "Name: " \o Text(OrV(entity_data.name, StrV("Unknown"))) \o "\n"
       \o "Rating: " \o Text(OrV(entity_data.rating, StrV("Not provided"))) \o "\n"
       \o "Address: " \o Text(OrV(entity_data.address, StrV("Not provided"))) \o "\n"
       \o "Amenities: " \o amenities_str \o "\n"
       \o "Description: " \o description \o "\n"
       \o "----"

\* the response made of the language model's answer a: 500 when the call
\* raised, the answer with its cards otherwise; later counts the fetches
\* made after the answer
Answered(query, a, cards, log, fetches, later, resolves, path) ==
    IF a.raised THEN InternalError(log, query, 1, fetches, resolves)
    ELSE Outcome(200, a.text, cards, save_message(log, "assistant", a.text),
                 query, IF a.called THEN 1 ELSE 0, fetches + later, resolves, path)

\* the summary of one resolved entity by the language model
\* (main.py lines 166-225 and 258-319)
SummaryAnswer(query, asked_name, entity_data, log, env, path) ==
    Answered(query,
             answer_with_ai(
                 "Tell me something about " \o Text(OrV(entity_data.name, StrV(asked_name)))
                 \o ". Write a short, factual 2-3 sentence summary using ONLY the provided context.",
                 EntityContext(entity_data), env.reply),
             <<EntityCard(entity_data)>>, log, 1, 0, 1, path)

\* cards of items[:8] (main.py lines 348-357)
Cards(shown) == SubSeq([i \in 1..Len(shown) |-> ListCard(shown[i])], 1, Len(shown))

\* steps 3 to 7: the list answer (main.py lines 322-369); fetches and
\* resolves count what the request did before.  The items are fetched a
\* second time only once the model has answered.
ListAnswer(query, intent, log, env, fetches, resolves) ==
    Answered(query,
             answer_with_ai(query, get_rag_context(env.context, intent), env.reply),
             Cards(Take(get_rag_items(env.items, intent), MAX_RESULTS)),
             log, fetches + 1, 1, resolves, "list")

NotOverrideStopword(t) == t \notin OVERRIDE_STOPWORDS

\* the bypass and the override found nothing to answer with: the request
\* falls through to the list answer after n resolutions
FallThrough(n) == Outcome(0, "", <<>>, <<>>, None, 0, n, n, "fall-through")

\* lines 146-158 and 166-225: the entity of an entity lookup resolved
EntityFound(query, entity_name, detected_attribute, entity, log, env) ==
    LET answer == format_attribute_answer(
                      entity.data, detected_attribute,
                      IF detected_attribute \in DOMAIN entity.data
                      THEN entity.data[detected_attribute] ELSE NoneV)
    IN IF ~entity.found THEN FallThrough(1)
       ELSE IF Truthy(detected_attribute)
       THEN Outcome(200, answer, <<>>, save_message(log, "assistant", answer),
                    query, 0, 1, 1, "attribute")
       ELSE SummaryAnswer(query, entity_name, entity.data, log, env, "entity")

\* step 2.5: the entity and attribute bypass (main.py lines 132-226)
EntityBypass(query, entity_name, detected_attribute, log, env) ==
    IF entity_name = "" THEN FallThrough(0)
    ELSE EntityFound(query, entity_name, detected_attribute,
                     resolve_entity(entity_name, env.resolve), log, env)

\* lines 250-319: the candidate name of the override resolved
OverrideFound(query, potential_entity_name, entity_normalized, entity, log, env) ==
    IF entity.found /\ entity_normalized # "" /\ entity_normalized \notin GENERIC_NAMES
    THEN SummaryAnswer(query, potential_entity_name, entity.data, log, env, "override")
    ELSE FallThrough(1)

\* the override on the candidate name
OverrideNamed(query, potential_entity_name, log, env) ==
    OverrideFound(query, potential_entity_name, normalize_name(potential_entity_name),
                  resolve_entity(potential_entity_name, env.resolve), log, env)

\* step 2.6: the override (main.py lines 231-320)
Override(query, entity_tokens, log, env) ==
    IF entity_tokens = <<>> THEN FallThrough(0)
    ELSE OverrideNamed(query, Join(entity_tokens, " "), log, env)

\* a response made before step 3, or the list answer
Finish(query, intent, log, env, early) ==
    IF early.path # "fall-through" THEN early
    ELSE ListAnswer(query, intent, log, env, early.fetches, early.resolves)

\* steps 2.5 to 7, entered once category_keyword is bound (main.py lines 131-369)
Pipeline(query, intent, log, env) ==
    Finish(query, intent, log, env,
           IF Get(intent, "type") = "entity_lookup"
           THEN EntityBypass(query, Or(Get(intent, "entity_name"), ""),
                             detect_attribute(query), log, env)
           ELSE Override(query, Filter(Split(Lower(query)), NotOverrideStopword), log, env))

\* the empty token let through
Front_token_unchecked(req, log) ==
    LET authorization == req.authorization
        query == Strip(req.query)
        stored == save_message(log, "user", query)
    IN IF ~Truthy(authorization) \/ ~StartsWith(authorization, "Bearer ")
       THEN Outcome(401, "Unauthorized", <<>>, log, None, 0, 0, 0, "unauthorized")
       ELSE IF query = ""
       THEN Outcome(400, "Query is required", <<>>, log, None, 0, 0, 0, "no-query")
       ELSE IF is_conversational(Strip(Lower(query)))
       THEN Outcome(200, GREETING_ANSWER, <<>>,
                    save_message(stored, "assistant", GREETING_ANSWER),
                    None, 0, 0, 0, "greeting")
       ELSE InternalError(stored, query, 0, 0, 0)

\* the user message stored before the query is checked
Front_store_before_check(req, log) ==
    LET authorization == req.authorization
        query == Strip(req.query)
        stored == save_message(log, "user", query)
    IN IF ~Truthy(authorization) \/ ~StartsWith(authorization, "Bearer ")
       THEN Outcome(401, "Unauthorized", <<>>, log, None, 0, 0, 0, "unauthorized")
       ELSE IF BearerToken(authorization) = ""
       THEN Outcome(401, "Unauthorized", <<>>, log, None, 0, 0, 0, "unauthorized")
       ELSE IF query = ""
       THEN Outcome(400, "Query is required", <<>>, stored, None, 0, 0, 0, "no-query")
       ELSE IF is_conversational(Strip(Lower(query)))
       THEN Outcome(200, GREETING_ANSWER, <<>>,
                    save_message(stored, "assistant", GREETING_ANSWER),
                    None, 0, 0, 0, "greeting")
       ELSE InternalError(stored, query, 0, 0, 0)

\* the request up to the binding of category_keyword (main.py lines 63-127):
\* the outcome when the request ends there, path "pipeline" when it goes on
Front(req, log) ==
    LET authorization == req.authorization
        query == Strip(req.query)
        stored == save_message(log, "user", query)
        intent == extract_intent(query)
    IN IF ~Truthy(authorization) \/ ~StartsWith(authorization, "Bearer ")
       THEN Outcome(401, "Unauthorized", <<>>, log, None, 0, 0, 0, "unauthorized")
       ELSE IF BearerToken(authorization) = ""
       THEN Outcome(401, "Unauthorized", <<>>, log, None, 0, 0, 0, "unauthorized")
       ELSE IF query = ""
       THEN Outcome(400, "Query is required", <<>>, log, None, 0, 0, 0, "no-query")
       ELSE IF is_conversational(Strip(Lower(query)))
       THEN Outcome(200, GREETING_ANSWER, <<>>,
                    save_message(stored, "assistant", GREETING_ANSWER),
                    None, 0, 0, 0, "greeting")
       \* category_keyword = intent["category"] raises KeyError when the
       \* intent has no such key
       ELSE IF "category" \notin DOMAIN intent
       THEN InternalError(stored, query, 0, 0, 0)
       ELSE Outcome(0, "", <<>>, stored, query, 0, 0, 0, "pipeline")

(***************************************************************************)
(* The service: /ask requests of one user, handled one after another,      *)
(* against the records the catalog provider serves.                        *)
(***************************************************************************)
Vaishali ==
    [vendor_name |-> "Hotel Vaishali Nashik", category |-> "Hotels", star_rating |-> 4,
     address |-> "College Road, Nashik", area_name |-> "College Road"]

Sula ==
    [vendor_name |-> "Sula Vineyards", category |-> "Wine & Vineyards",
     description |-> "Vineyard with a tasting room", area_name |-> "Gangapur"]

Resort(n) ==
    [vendor_name |-> "Resort " \o ToString(n), category |-> "Resorts", star_rating |-> 3]

Catalogs ==
    {<<>>, <<Sula, Vaishali>>, <<Resort(1), Resort(2)>>}

GoodCredential == "Bearer user-1"

Queries ==
    CONVERSATIONAL_KEYWORDS
    \cup {"yes", "budget hotels", "hotel vaishali rating", "pool", "resorts in nashik",
          "tell me about sula vineyards", "  ", "", "Hello there", "which museum"}

Requests ==
    {[authorization |-> GoodCredential, query |-> q] : q \in Queries}
    \cup {[authorization |-> a, query |-> "hi"] : a \in {None, "Basic user-1", "Bearer  "}}

\* what the provider may answer to one fetch
Responses == {FailedFetch, [ok |-> TRUE, items |-> catalog]}

Replies == {[ok |-> TRUE, text |-> " Here is what I found. "], [ok |-> FALSE, text |-> ""]}

NoRequest ==
    [req |-> [authorization |-> None, query |-> ""], before |-> <<>>, catalog |-> <<>>,
     status |-> 0, answer |-> "", cards |-> <<>>, effective |-> None,
     llm_calls |-> 0, fetches |-> 0, resolves |-> 0, path |-> "none"]

Init ==
    /\ memory = <<>>
    /\ catalog \in Catalogs
    /\ last = NoRequest
    /\ nreq = 0
    /\ fin = [fn |-> "none"]
    /\ fout = NoOut

\* the request's outcome recorded: the user's log, and the response with the
\* log and the provider's data the request found
Respond(req, out) ==
    /\ memory' = out.memory
    /\ last' = [req |-> req, before |-> memory, catalog |-> catalog,
                status |-> out.status, answer |-> out.answer, cards |-> out.cards,
                effective |-> out.effective, llm_calls |-> out.llm_calls,
                fetches |-> out.fetches, resolves |-> out.resolves, path |-> out.path]

\* the request served from where Front left it; the collaborators answer
\* only a request that calls them
Serve(req, front) ==
    IF front.path # "pipeline" THEN Respond(req, front)
    ELSE \E r1 \in Responses, r2 \in Responses, r3 \in Responses, reply \in Replies :
           Respond(req, Pipeline(front.effective, extract_intent(front.effective),
                                 front.memory,
                                 [resolve |-> r1, context |-> r2, items |-> r3,
                                  reply |-> reply]))

\* POST /ask
ask_ai ==
    /\ nreq < MaxRequests
    /\ \E req \in Requests : Serve(req, Front(req, memory))
    /\ nreq' = nreq + 1
    /\ UNCHANGED <<catalog, fin, fout>>

\* the provider's data changes between two requests
CatalogChange ==
    /\ \E c \in Catalogs : c # catalog /\ catalog' = c
    /\ UNCHANGED <<memory, last, nreq, fin, fout>>

Next == ask_ai \/ CatalogChange

Spec == Init /\ [][Next]_vars

\* the last request came with a credential and a query, and was not answered
\* by the greeting short-circuit: its query went to intent extraction
Extracted == last.path \notin {"none", "unauthorized", "no-query", "greeting"}

\* the last request came with a valid credential
Authenticated == last.path \notin {"none", "unauthorized"}

\* the catalog filter's output on the provider's data of the last request
FilteredCatalog ==
    get_rag_items([ok |-> TRUE, items |-> last.catalog], extract_intent(Strip(last.req.query)))

\* C1: a request whose extracted intent has a non-empty must_have and whose
\* domain-filtered catalog is empty is answered with the fixed no-data
\* sentence, and the language model is not called during the request.
C1_NoDataSentinel ==
    (/\ Extracted
     /\ extract_intent(Strip(last.req.query)).must_have # <<>>
     /\ FilteredCatalog = <<>>)
    => (last.status = 200 /\ last.answer = NO_DATA /\ last.llm_calls = 0)

\* C8: every phrase of the greeting set, sent alone by an authenticated
\* caller, is answered with the fixed capability sentence and no cards, and
\* the request makes no catalog fetch, no entity resolution and no call of
\* the language model.
C8_GreetingShortCircuit ==
    (Authenticated /\ last.req.query \in CONVERSATIONAL_KEYWORDS)
    => /\ last.status = 200
       /\ last.answer = GREETING_ANSWER
       /\ last.cards = <<>>
       /\ last.fetches = 0 /\ last.resolves = 0 /\ last.llm_calls = 0

FOLLOW_UPS == {"yes", "more", "continue"}

\* the contents of the user's messages of a log, in order
UserMessages(log) ==
    LET IsUser(m) == m.role = "user"
    IN Column(Filter(log, IsUser), "content")

\* C9: when the query, trimmed and lowered, is one of yes, more, continue and
\* the user's history holds a user message, the query run through intent
\* extraction is the previous user message.
C9_FollowUpSubstitution ==
    (/\ Extracted
     /\ Strip(Lower(last.req.query)) \in FOLLOW_UPS
     /\ UserMessages(last.before) # <<>>)
    => last.effective = UserMessages(last.before)[Len(UserMessages(last.before))]

\* C10: the query "hotel vaishali rating", with Hotel Vaishali Nashik of
\* rating 4 in the catalog, is answered with the attribute sentence of that
\* venue and no cards, and the language model is not called.
C10_AttributeBypass ==
    (/\ Authenticated
     /\ last.req.query = "hotel vaishali rating"
     /\ \E i \in 1..Len(last.catalog) : last.catalog[i] = Vaishali)
    => /\ last.status = 200
       /\ last.answer = "Hotel Vaishali Nashik has a 4.0-star rating."
       /\ last.cards = <<>>
       /\ last.llm_calls = 0

\* C11: the list query "resorts in nashik", against a catalog whose items all
\* canonicalize to resort, is answered with min(8, number of items) cards.
C11_ListCards ==
    (/\ Authenticated
     /\ last.req.query = "resorts in nashik"
     /\ last.catalog # <<>>
     /\ \A i \in 1..Len(last.catalog) :
           canonical_category(last.catalog[i].category) = "resort")
    => /\ last.status = 200
       /\ Len(last.cards) = IF Len(last.catalog) < 8 THEN Len(last.catalog) ELSE 8

\* the credential is missing, does not start with "Bearer ", or carries an
\* empty token
BadCredential(a) ==
    \/ a = None
    \/ a = ""
    \/ Len(a) < 7
    \/ SubSeq(a, 1, 7) # "Bearer "
    \/ \A i \in 8..Len(a) : IsSpace(Ch(a, i))

\* a request was served in this step
Request == nreq' = nreq + 1

\* C12: a request with a bad credential is answered 401 and nothing of the
\* pipeline runs for it: the memory is not appended to, no query goes to
\* intent extraction, no catalog is fetched, no entity is resolved and the
\* language model is not called.
C12_UnauthorizedNoPipeline ==
    [][(Request /\ BadCredential(last'.req.authorization))
       => /\ last'.status = 401
          /\ memory' = memory
          /\ last'.effective = None
          /\ last'.fetches = 0 /\ last'.resolves = 0 /\ last'.llm_calls = 0]_vars

\* a request with an empty token was refused while the user's log held a message
C12_Witness ==
    /\ last.req.authorization = "Bearer  "
    /\ last.status = 401
    /\ last.before # <<>>
    /\ memory = last.before

\* the query is empty or only whitespace
Blank(q) == \A i \in 1..Len(q) : IsSpace(Ch(q, i))

\* C13: an authenticated request with an empty or blank query is answered 400
\* and touches nothing: the memory keeps its content, no catalog is fetched,
\* no entity is resolved and the language model is not called.
C13_EmptyQueryNoEffects ==
    [][(Request /\ ~BadCredential(last'.req.authorization) /\ Blank(last'.req.query))
       => /\ last'.status = 400
          /\ memory' = memory
          /\ last'.fetches = 0 /\ last'.resolves = 0 /\ last'.llm_calls = 0]_vars

\* a blank query was refused while the user's log held a message
C13_Witness ==
    /\ last.req.authorization = GoodCredential
    /\ last.req.query = "  "
    /\ last.status = 400
    /\ last.before # <<>>
    /\ memory = last.before

(***************************************************************************)
(* Function specification of the two answer functions: Init draws the      *)
(* input, one action applies answer_with_ai, one format_attribute_answer.  *)
(***************************************************************************)
AnswerContexts == {"", " \n ", EntityContext(normalize_hotel_entity(Vaishali))}

AnswerQueries == {"budget hotels", "tell me about sula vineyards"}

\* the attribute keys detect_attribute can return
AttributeKeys == {ATTRIBUTE_KEYWORDS[i].attr : i \in 1..Len(ATTRIBUTE_KEYWORDS)}

Entities ==
    {normalize_hotel_entity(Vaishali), normalize_hotel_entity(Sula),
     [address |-> StrV("MG Road")]}

AttributeValues ==
    {NoneV, StrV(""), StrV("Gangapur Road"), StrV("4"), IntV(4), BoolV(TRUE), BoolV(FALSE),
     ListV(<<>>), ListV(<<"Free WiFi", "Pool">>)}

AnswerInputs ==
    {[fn |-> "answer_with_ai", query |-> q, context |-> c, reply |-> r] :
        q \in AnswerQueries, c \in AnswerContexts, r \in Replies}
    \cup {[fn |-> "format_attribute_answer", entity_data |-> e, attribute |-> a, value |-> v] :
            e \in Entities, a \in AttributeKeys, v \in AttributeValues}

InitAnswer == Idle /\ fin \in AnswerInputs /\ fout = NoOut

ApplyAnswerWithAi ==
    /\ ~fout.done
    /\ fin.fn = "answer_with_ai"
    /\ fout' = [done |-> TRUE, result |-> answer_with_ai(fin.query, fin.context, fin.reply)]
    /\ UNCHANGED <<memory, catalog, last, nreq, fin>>

ApplyFormatAttributeAnswer ==
    /\ ~fout.done
    /\ fin.fn = "format_attribute_answer"
    /\ fout' = [done |-> TRUE,
                result |-> format_attribute_answer(fin.entity_data, fin.attribute, fin.value)]
    /\ UNCHANGED <<memory, catalog, last, nreq, fin>>

NextAnswer == ApplyAnswerWithAi \/ ApplyFormatAttributeAnswer

SpecAnswer == InitAnswer /\ [][NextAnswer]_vars

\* C14: a failure of a collaborator is recovered locally: a failed call of the
\* language model yields the sentinel text, not a failure of the request.
C14_FailureRecovered ==
    (fout.done /\ fin.fn = "answer_with_ai" /\ ~fin.reply.ok)
    => (~fout.result.raised /\ fout.result.text = NO_DATA)

\* C15: for every attribute key of the extraction table, every entity and
\* every value, format_attribute_answer returns a sentence, never nothing.
C15_FormatterKnowsEveryKey ==
    (fout.done /\ fin.fn = "format_attribute_answer") => fout.result # None

(***************************************************************************)
(* search_api as a function of the provider's response and the intent:     *)
(* catalogs of a few records, and catalogs longer than the limit the       *)
(* callers pass (rag_service.py:143, 174).                                 *)
(***************************************************************************)
MaxRankItems == 3

RankItems ==
    {[vendor_name |-> "A", category |-> "Hotels", sub_category |-> "Budget",
      description |-> "Cheap rooms near lake"],
     [vendor_name |-> "B", category |-> "Resort", description |-> "Luxury lake view"],
     [vendor_name |-> "C", category |-> "Museum", sub_category |-> "", description |-> ""],
     [vendor_name |-> "D", category |-> "Hotels", description |-> "Budget luxury hotel"]}

\* the intents detect_intent builds carry no keywords; the others are the
\* intents score_item is written for
RankIntents ==
    {[search_domain |-> "hotel"]}
    \cup {[search_domain |-> "hotel", keywords |-> k] :
            k \in {<<>>, <<"lake">>, <<"budget", "luxury">>, <<"hotel", "budget", "lake">>,
                   <<"temple">>, <<"Lake">>}}

Repeat(x, n) == [i \in 1..n |-> x]

\* catalogs of SEARCH_LIMIT and SEARCH_LIMIT + 1 records
LongCatalogs ==
    {Repeat(x, SEARCH_LIMIT) \o c : x \in RankItems, c \in SeqsUpTo(RankItems, 1)}

RankInputs ==
    {[fn |-> "search_api", fetched |-> [ok |-> TRUE, items |-> c], intent |-> i] :
        c \in SeqsUpTo(RankItems, MaxRankItems) \cup LongCatalogs, i \in RankIntents}
    \cup {[fn |-> "search_api", fetched |-> FailedFetch, intent |-> i] : i \in RankIntents}

InitRank == Idle /\ fin \in RankInputs /\ fout = NoOut

ApplySearchApi ==
    /\ ~fout.done
    /\ fin.fn = "search_api"
    /\ fout' = [done |-> TRUE, result |-> search_api(fin.fetched, fin.intent, SEARCH_LIMIT)]
    /\ UNCHANGED <<memory, catalog, last, nreq, fin>>

NextRank == ApplySearchApi

SpecRank == InitRank /\ [][NextRank]_vars

\* the number of the intent's keywords occurring in the record's text
KeywordHits(item, kws) ==
    LET text == Lower(Fmt(item, "sub_category") \o " " \o Fmt(item, "category")
                      \o " " \o Fmt(item, "description"))
    IN Cardinality({k \in DOMAIN kws : Contains(text, kws[k])})

\* the place a record of the catalog takes among the scored ones: behind the
\* records of higher score and behind the earlier records of equal score
Place(hits, i) ==
    1 + Cardinality({j \in DOMAIN hits : \/ hits[j] > hits[i]
                                         \/ (hits[j] = hits[i] /\ j < i)})

\* the result is the first `keep` of the scored records in ranking order,
\* or of all records in catalog order when none is scored
RankedTo(result, items, hits, intent, keep) ==
    LET scored == {i \in DOMAIN items : hits[i] > 0} IN
    /\ \A k \in DOMAIN result : result[k]._score = KeywordHits(result[k], Keywords(intent))
    /\ IF scored # {}
       THEN /\ Len(result) = IF Cardinality(scored) < keep THEN Cardinality(scored) ELSE keep
            /\ \A i \in scored :
                 Place(hits, i) <= keep
                 => result[Place(hits, i)] = Normalized(items[i], intent)
       ELSE /\ Len(result) = IF Len(items) < keep THEN Len(items) ELSE keep
            /\ \A k \in DOMAIN result : result[k] = Normalized(items[k], intent)

Hits(items, intent) ==
    [i \in DOMAIN items |-> KeywordHits(items[i], Keywords(intent))]

Searched == fout.done /\ fin.fn = "search_api" /\ fin.fetched.ok

MaxGather == 3

GatherCatalogs ==
    SeqsUpTo({Vaishali, Sula, Resort(1)}, MaxGather)
    \cup {[k \in 1..(MAX_RESULTS + 1) |-> Resort(k)]}

GatherIntents ==
    {[exploratory |-> e, search_domain |-> d] :
        e \in BOOLEAN, d \in {None, "hotel", "resort"}}

GatherInputs ==
    {[fn |-> "get_rag_context", fetched |-> [ok |-> TRUE, items |-> c], intent |-> i] :
        c \in GatherCatalogs, i \in GatherIntents}
    \cup {[fn |-> "get_rag_context", fetched |-> FailedFetch, intent |-> i] :
            i \in GatherIntents}

InitGather == Idle /\ fin \in GatherInputs /\ fout = NoOut

\* gather with the result of task k stored at the place its completion takes
ResultSlot_as_completed(k, completed) == completed + 1

\* gather: the result of the k-th awaitable is the k-th element of the list
ResultSlot(k, completed) == k

\* lines 143-164, and line 166 creating the tasks; "" on each early return
Gathering(selected) ==
    IF selected = <<>>
    THEN [done |-> TRUE, formatted |-> <<>>, first |-> 0, context |-> ""]
    ELSE [done |-> FALSE, selected |-> selected, ran |-> {}, first |-> 0,
          formatted |-> [k \in 1..Len(selected) |-> None]]

StartGather ==
    /\ fin.fn = "get_rag_context"
    /\ ~fout.done
    /\ "ran" \notin DOMAIN fout
    /\ fout' = Gathering(rag_selected(fin.fetched, fin.intent))
    /\ UNCHANGED <<memory, catalog, last, nreq, fin>>

\* one task runs to its end: _format_item has no await inside
RunFormatItem ==
    /\ ~fout.done
    /\ "ran" \in DOMAIN fout
    /\ \E k \in (1..Len(fout.selected)) \ fout.ran :
         fout' = [fout EXCEPT
                    !.formatted[ResultSlot(k, Cardinality(fout.ran))] =
                        _format_item(fout.selected[k], k),
                    !.ran = @ \cup {k},
                    !.first = IF @ = 0 THEN k ELSE @]
    /\ UNCHANGED <<memory, catalog, last, nreq, fin>>

\* line 170, once every task is done
FinishGather ==
    /\ ~fout.done
    /\ "ran" \in DOMAIN fout
    /\ fout.ran = 1..Len(fout.selected)
    /\ fout' = [done |-> TRUE, formatted |-> fout.formatted, first |-> fout.first,
                context |-> Strip(Join(fout.formatted, "\n"))]
    /\ UNCHANGED <<memory, catalog, last, nreq, fin>>

NextGather == StartGather \/ RunFormatItem \/ FinishGather

SpecGather == InitGather /\ [][NextGather]_vars

Assembled == fout.done /\ fin.fn = "get_rag_context"

\* the blocks are those of the first `n` of the filtered records, block k
\* carrying ordinal k and the fields of the k-th record
BlocksOf(formatted, filtered, n) ==
    /\ Len(formatted) = n
    /\ \A k \in 1..n : formatted[k] = _format_item(filtered[k], k)

\* C17: the context holds min(8, number of filtered records) blocks, block k
\* with ordinal k describing the k-th filtered record, whatever the order in
\* which the formatting tasks ran; without filtered records it is empty.
C17_BlocksInFilteredOrder ==
    Assembled =>
        \A filtered \in {get_rag_items(fin.fetched, fin.intent)} :
            /\ BlocksOf(fout.formatted, filtered,
                        IF Len(filtered) < 8 THEN Len(filtered) ELSE 8)
            /\ filtered = <<>> => fout.context = ""
            /\ fout.context = Strip(Join(fout.formatted, "\n"))

\* nine records pass the filter, eight blocks were rendered, and the task of
\* the eighth record ran first
C17_Witness ==
    /\ Assembled
    /\ Len(get_rag_items(fin.fetched, fin.intent)) = 9
    /\ Len(fout.formatted) = 8
    /\ fout.first = 8

(***************************************************************************)
(* detect_intent as a function of the query                                *)
(***************************************************************************)
MaxQueryPieces == 2

QueryPieces ==
    {"show ", "Tell me about ", "hi ", "wine ", "wine shop ", "hospital ", "hotel ",
     "hotels ", "villa ", "sula vineyards ", "trek ", "restaurants ", "lodging ", "nashik ",
     "ashram "}

IntentInputs ==
    {[fn |-> "detect_intent", query |-> Concat(ps)] :
        ps \in SeqsUpTo(QueryPieces, MaxQueryPieces)}

InitIntent == Idle /\ fin \in IntentInputs /\ fout = NoOut

ApplyDetectIntent ==
    /\ ~fout.done
    /\ fin.fn = "detect_intent"
    /\ fout' = [done |-> TRUE, intent |-> detect_intent(fin.query)]
    /\ UNCHANGED <<memory, catalog, last, nreq, fin>>

NextIntent == ApplyDetectIntent

SpecIntent == InitIntent /\ [][NextIntent]_vars

Detected == fout.done /\ fin.fn = "detect_intent"

\* the action the three rules give a lower-cased query, the first rule
\* standing for search
RuledAction(q) ==
    IF AnyIn(q, <<"show", "list", "find", "search">>) THEN "search"
    ELSE IF AnyIn(q, <<"tell", "about", "details">>) THEN "detail"
    ELSE IF AnyIn(q, <<"who are you", "what can you do", "about yourself", "hey", "hi">>)
         THEN "general"
    ELSE "search"

\* C18: the action of every intent is one of search, detail, general: that of
\* the first rule the query matches, and search when it matches none.
C18_ActionEnum ==
    Detected => /\ fout.intent.action \in {"search", "detail", "general"}
                /\ fout.intent.action = RuledAction(Lower(fin.query))

\* the rows of the phrase table whose phrase occurs in q
Occurring(q) ==
    {i \in DOMAIN PHRASE_TO_CATEGORY : Contains(q, PHRASE_TO_CATEGORY[i].phrase)}

\* row i holds the longest of the phrases of `rows`, the first declared of
\* the longest
LongestFirstDeclared(i, rows) ==
    /\ i \in rows
    /\ \A j \in rows :
         \/ Len(PHRASE_TO_CATEGORY[j].phrase) < Len(PHRASE_TO_CATEGORY[i].phrase)
         \/ (Len(PHRASE_TO_CATEGORY[j].phrase) = Len(PHRASE_TO_CATEGORY[i].phrase) /\ i <= j)

\* the domains of the keyword-set table one of whose keywords occurs in q
DomainsHit(q) ==
    {d \in DOMAIN DOMAIN_KEYWORDS : AnyIn(q, DOMAIN_KEYWORDS[d].keywords)}

\* search_domain is what the two tables give: the phrase table when a phrase
\* occurs, the keyword-set table otherwise, null when neither matches
DomainResolved(domain, q, phrases, domains) ==
    IF phrases # {}
    THEN \E i \in phrases :
            LongestFirstDeclared(i, phrases) /\ domain = PHRASE_TO_CATEGORY[i].category
    ELSE IF domains # {}
    THEN \E d \in domains :
            (\A e \in domains : d <= e) /\ domain = DOMAIN_KEYWORDS[d].domain
    ELSE domain = None

\* C19: when a phrase of the phrase-to-category table occurs in the query,
\* search_domain is the category of the longest occurring phrase, the first
\* declared among equally long ones, whatever the keyword-set table holds;
\* otherwise it is the first domain in declaration order one of whose
\* keywords occurs in the query; when neither table matches it is null.
C19_DomainResolution ==
    Detected =>
        \A q \in {Lower(fin.query)} :
            DomainResolved(fout.intent.search_domain, q, Occurring(Strip(q)), DomainsHit(q))

\* "wine" is declared before "hospital" and the keyword-set table has wine
\* before hospital, yet the longer phrase decides
C19_Witness ==
    /\ Detected
    /\ Contains(Lower(fin.query), "wine")
    /\ Contains(Lower(fin.query), "hospital")
    /\ fout.intent.search_domain = "hospital"

\* the candidate is made of pure-category words only
PureCandidate(entity) ==
    \A w \in WordSet(Split(entity)) : w \in PURE_CATEGORY_WORDS

\* C20: the intent has type entity_lookup, and entity_name equal to the
\* entity candidate, exactly when the action is detail, there is a candidate
\* and the candidate is not made of pure-category words only; in every other
\* case the intent has neither a type nor an entity_name.
C20_LookupClassification ==
    Detected =>
        IF /\ fout.intent.action = "detail"
           /\ fout.intent.entity # None
           /\ ~PureCandidate(fout.intent.entity)
        THEN /\ "type" \in DOMAIN fout.intent
             /\ fout.intent.type = "entity_lookup"
             /\ fout.intent.entity_name = fout.intent.entity
        ELSE /\ "type" \notin DOMAIN fout.intent
             /\ "entity_name" \notin DOMAIN fout.intent

\* a detail query naming a venue
C20_Witness ==
    /\ Detected
    /\ fout.intent.action = "detail"
    /\ "type" \in DOMAIN fout.intent
    /\ fout.intent.entity_name = "sula vineyards"

\* C21: an authenticated request with a non-empty query during which no
\* collaborator failed (none was even called) is answered with status 200,
\* never with the internal error: the field the handler reads from the
\* intent right after extraction is present in it.
C21_NoInternalError ==
    (/\ Authenticated
     /\ ~Blank(last.req.query)
     /\ last.fetches = 0 /\ last.llm_calls = 0)
    => /\ last.status = 200
       /\ Extracted => "category" \in DOMAIN extract_intent(Strip(last.req.query))

\* the catalog filter in strict mode on one record whose raw category is d
KeptByFilter(d) ==
    get_rag_items([ok |-> TRUE, items |-> <<[vendor_name |-> "X", category |-> d]>>],
                  [exploratory |-> FALSE, search_domain |-> d]) # <<>>

\* C22: a search_domain the extractor produces and for which the
\* canonicalizer has a rule is canonicalized to itself, so a record whose raw
\* category is the domain word passes the strict domain filter.
C22_DomainFixedPoint ==
    Detected =>
        \A d \in {fout.intent.search_domain} :
            (d # None /\ RulesMatching(d) # {})
            => (canonical_category(d) = d /\ KeptByFilter(d))

\* C23: an authenticated request whose query resolves to a search_domain is
\* not answered by the greeting short-circuit: it reaches intent extraction.
C23_GreetingSparesDomainQueries ==
    (/\ Authenticated
     /\ extract_intent(Strip(last.req.query)).search_domain # None)
    => (last.path # "greeting" /\ Extracted)

\* C25: the user's log alternates user, assistant, user, assistant: a
\* request rejected with 400 or 401 appends nothing, every other request
\* appends its user message and then exactly one assistant message holding
\* the answer it returned.
C25_LogAlternates ==
    /\ \A i \in DOMAIN memory :
         memory[i].role = IF i % 2 = 1 THEN "user" ELSE "assistant"
    /\ last.status \in {400, 401} => memory = last.before
    /\ (Authenticated /\ last.status \notin {400, 401})
       => memory = last.before
                   \o << [role |-> "user", content |-> Strip(last.req.query)],
                         [role |-> "assistant", content |-> last.answer] >>

\* C26: the two canonicalizers agree: for every raw category string
\* normalize_category of rag_service and canonical_category of data_service
\* return the same tag.
C26_CanonicalizersAgree ==
    Canonicalized => fout.rag_value = fout.value

(***************************************************************************)
(* The list answer (main.py:322-369) as a step of its own: the provider    *)
(* answers the fetch of get_rag_context and the later fetch of             *)
(* get_rag_items independently.                                            *)
(***************************************************************************)
ListQueries == {"budget hotels", "resorts in nashik", "wine tasting", "pool"}

ListFetches == {FailedFetch} \cup {[ok |-> TRUE, items |-> c] : c \in Catalogs}

ListInputs ==
    {[fn |-> "list", query |-> q, context |-> r2, items |-> r3, reply |-> reply] :
        q \in ListQueries, r2 \in ListFetches, r3 \in ListFetches, reply \in Replies}

InitList == Idle /\ fin \in ListInputs /\ fout = NoOut

ApplyListAnswer ==
    /\ ~fout.done
    /\ fin.fn = "list"
    /\ fout' = [done |-> TRUE,
                out |-> ListAnswer(fin.query, extract_intent(fin.query), <<>>,
                                   [context |-> fin.context, items |-> fin.items,
                                    reply |-> fin.reply], 0, 0)]
    /\ UNCHANGED <<memory, catalog, last, nreq, fin>>

SpecList == InitList /\ [][ApplyListAnswer]_vars

\* C24: the cards of a list response are the display projection of exactly
\* the records rendered in the context handed to the language model (same
\* records, same order, at most 8), whatever the provider answers to the
\* fetches of the request.
C24_CardsMatchContext ==
    (fout.done /\ fin.fn = "list" /\ fout.out.status = 200)
    => fout.out.cards = Cards(rag_selected(fin.context, extract_intent(fin.query)))

====
